---------------------------- MODULE Spec2Model ----------------------------
(***************************************************************************)
(* A model of the rune compiler core: the Assembly label/instruction       *)
(* buffer (crates/runestick/src/assembly.rs), the compilation of `.await`  *)
(* and index-set expressions (crates/rune/src/compile) and the parser of   *)
(* struct declarations (crates/rune/src/ast/decl_struct.rs).               *)
(***************************************************************************)
EXTENDS Integers, Sequences, FiniteSets, TLC

VARIABLES
    asm,        \* the Assembly: labels, labels_rev, instructions, comments,
                \* label_count, required_functions
    ret,        \* the last Assembly call: its name, arguments and return value
    created,    \* history: the labels returned by new_label on this Assembly
    placed,     \* history: label -> offset of its successful placement
    compiled,   \* the last compile call: node, needs, result and the log of
                \* the compile calls made under it
    parser,     \* the Parser: the token stream and the cursor
    parsed,     \* the last parse call: its kind, the cursor it started at
                \* and its result
    loop        \* the frame of a body parser that runs step by step: its
                \* position, the fields read so far and its result

vars == <<asm, ret, created, placed, compiled, parser, parsed, loop>>

assemblyVars == <<asm, ret, created, placed>>
compilerVars == <<compiled>>
parserVars == <<parser, parsed, loop>>

(***************************************************************************)
(* Bounds of the model.                                                    *)
(***************************************************************************)
\* labels allocated, labels placed and instructions pushed on one Assembly
MaxSize == 3
\* await and index-set nodes of one compiled expression
MaxNodes == 2
\* a further expression is compiled into an Assembly holding fewer
\* instructions than this
MaxPrior == 3
\* tokens of a struct body in the parsed source
MaxTokens == 6

(***************************************************************************)
(* Values.                                                                 *)
(***************************************************************************)
None == [tag |-> "None"]
Some(v) == [tag |-> "Some", v |-> v]

\* HashMap<K, V> as a function with a finite domain.
EmptyMap == <<>>

\* HashMap::insert: the value is replaced when the key is present, and the
\* old value is returned.
HashMapInsert(m, k, v) ==
    [map |-> [x \in DOMAIN m \cup {k} |-> IF x = k THEN v ELSE m[x]],
     old |-> IF k \in DOMAIN m THEN Some(m[k]) ELSE None]

\* HashMap::entry(k).or_default().push(v) on a HashMap<K, Vec<V>>.
EntryOrDefaultPush(m, k, v) ==
    [x \in DOMAIN m \cup {k} |->
        IF x = k
        THEN Append(IF k \in DOMAIN m THEN m[k] ELSE <<>>, v)
        ELSE m[x]]

MkLabel(name, ident) == [name |-> name, ident |-> ident]

MkSpan(start, end) == [start |-> start, end |-> end]

Names == {"a", "b"}

Spans == {MkSpan(0, 1), MkSpan(2, 5)}

Hashes == {"h1", "h2"}

Comments == {"c1", "c2"}

CommentSpans == {MkSpan(2, 5)}

JumpSpans == {MkSpan(6, 9)}

\* The Inst values the Assembly is given: a call names a function hash.
InstCall(hash) == [op |-> "Call", hash |-> hash]
InstPop == [op |-> "Pop"]
InstAwait == [op |-> "Await"]
InstIndexSet == [op |-> "IndexSet"]
InstUnit == [op |-> "Unit"]

RawInsts == {InstCall(h) : h \in Hashes} \cup {InstPop}

\* Labels a caller can hold: those new_label returned, and a label value
\* this Assembly has not allocated (it may allocate an equal one later).
ForeignLabel == MkLabel("a", 1)

LabelArgs == created \cup {ForeignLabel}

BranchArgs == {-1, 1}

CountArgs == {0, 2}

Unit == [tag |-> "Unit"]
Ok(l) == [tag |-> "Ok", label |-> l]
Err(e) == [tag |-> "Err", error |-> e]
DuplicateLabel(l) == [kind |-> "DuplicateLabel", label |-> l]

(***************************************************************************)
(* Assembly.                                                               *)
(***************************************************************************)
\* Assembly::new
AssemblyNew(label_count) ==
    [labels |-> EmptyMap,
     labels_rev |-> EmptyMap,
     instructions |-> <<>>,
     comments |-> EmptyMap,
     label_count |-> label_count,
     required_functions |-> EmptyMap]

\* Mutant of new_label: the counter is not advanced.
new_label_NoIncrement(a, name) ==
    [asm |-> a, val |-> MkLabel(name, a.label_count)]

\* Assembly::new_label
new_label(a, name) ==
    LET l == MkLabel(name, a.label_count)
    IN [asm |-> [a EXCEPT !.label_count = @ + 1], val |-> l]

\* Mutant of label: the old binding is not looked at.
label_NoDuplicateCheck(a, l) ==
    LET offset == Len(a.instructions)
    IN [asm |-> [a EXCEPT !.labels = HashMapInsert(@, l, offset).map,
                          !.labels_rev = HashMapInsert(@, offset, l).map],
        val |-> Ok(l)]

\* Mutant of label: labels_rev is written before the duplicate check.
label_RevBeforeCheck(a, l) ==
    LET offset == Len(a.instructions)
        ins == HashMapInsert(a.labels, l, offset)
        a1 == [a EXCEPT !.labels = ins.map,
                        !.labels_rev = HashMapInsert(@, offset, l).map]
    IN IF ins.old # None
       THEN [asm |-> a1, val |-> Err(DuplicateLabel(l))]
       ELSE [asm |-> a1, val |-> Ok(l)]

\* Mutant of label: an offset that has a label keeps it.
label_RevKeepsFirst(a, l) ==
    LET offset == Len(a.instructions)
        ins == HashMapInsert(a.labels, l, offset)
        a1 == [a EXCEPT !.labels = ins.map]
    IN IF ins.old # None
       THEN [asm |-> a1, val |-> Err(DuplicateLabel(l))]
       ELSE [asm |-> IF offset \in DOMAIN a.labels_rev THEN a1
                     ELSE [a1 EXCEPT !.labels_rev =
                                        HashMapInsert(@, offset, l).map],
             val |-> Ok(l)]

\* Mutant of label: the label is bound one past the current offset.
label_OffByOne(a, l) ==
    LET offset == Len(a.instructions) + 1
        ins == HashMapInsert(a.labels, l, offset)
        a1 == [a EXCEPT !.labels = ins.map]
    IN IF ins.old # None
       THEN [asm |-> a1, val |-> Err(DuplicateLabel(l))]
       ELSE [asm |-> [a1 EXCEPT !.labels_rev = HashMapInsert(@, offset, l).map],
             val |-> Ok(l)]

\* Assembly::label
label(a, l) ==
    LET offset == Len(a.instructions)
        ins == HashMapInsert(a.labels, l, offset)
        a1 == [a EXCEPT !.labels = ins.map]
    IN IF ins.old # None
       THEN [asm |-> a1, val |-> Err(DuplicateLabel(l))]
       ELSE [asm |-> [a1 EXCEPT !.labels_rev = HashMapInsert(@, offset, l).map],
             val |-> Ok(l)]

\* Mutant of PushEntry: the entry is put in front.
PushEntry_InFront(a, inst, span) ==
    [a EXCEPT !.instructions = <<<<inst, span>>>> \o @]

\* Vec::push on instructions
PushEntry(a, inst, span) ==
    [a EXCEPT !.instructions = Append(@, <<inst, span>>)]

\* Assembly::jump
jump(a, l, span) == PushEntry(a, [kind |-> "Jump", label |-> l], span)

\* Assembly::jump_if
jump_if(a, l, span) == PushEntry(a, [kind |-> "JumpIf", label |-> l], span)

\* Mutant of jump_if_not: the entry of jump_if is pushed.
jump_if_not_WrongVariant(a, l, span) ==
    PushEntry(a, [kind |-> "JumpIf", label |-> l], span)

\* Assembly::jump_if_not
jump_if_not(a, l, span) == PushEntry(a, [kind |-> "JumpIfNot", label |-> l], span)

\* Assembly::jump_if_branch
jump_if_branch(a, branch, l, span) ==
    PushEntry(a, [kind |-> "JumpIfBranch", branch |-> branch, label |-> l], span)

\* Assembly::pop_and_jump_if
pop_and_jump_if(a, count, l, span) ==
    PushEntry(a, [kind |-> "PopAndJumpIf", count |-> count, label |-> l], span)

\* Assembly::pop_and_jump_if_not
pop_and_jump_if_not(a, count, l, span) ==
    PushEntry(a, [kind |-> "PopAndJumpIfNot", count |-> count, label |-> l], span)

\* Mutant of push: the entry of the hash is replaced, not extended.
push_ReplaceSpans(a, raw, span) ==
    LET a1 == IF raw.op = "Call"
              THEN [a EXCEPT !.required_functions =
                                HashMapInsert(@, raw.hash, <<span>>).map]
              ELSE a
    IN PushEntry(a1, [kind |-> "Raw", raw |-> raw], span)

\* Assembly::push
push(a, raw, span) ==
    LET a1 == IF raw.op = "Call"
              THEN [a EXCEPT !.required_functions =
                                EntryOrDefaultPush(@, raw.hash, span)]
              ELSE a
    IN PushEntry(a1, [kind |-> "Raw", raw |-> raw], span)

\* Mutant of push_with_comment: the instruction is not pushed.
push_with_comment_NoPush(a, raw, span, comment) ==
    LET pos == Len(a.instructions)
    IN [a EXCEPT !.comments = EntryOrDefaultPush(@, pos, comment)]

\* Mutant of push_with_comment: the comment is keyed by the offset after
\* the push.
push_with_comment_PostOffset(a, raw, span, comment) ==
    LET a1 == push(a, raw, span)
        pos == Len(a1.instructions)
    IN [a1 EXCEPT !.comments = EntryOrDefaultPush(@, pos, comment)]

\* Assembly::push_with_comment
push_with_comment(a, raw, span, comment) ==
    LET pos == Len(a.instructions)
        a1 == [a EXCEPT !.comments = EntryOrDefaultPush(@, pos, comment)]
    IN push(a1, raw, span)

(***************************************************************************)
(* The Assembly under any sequence of calls.                               *)
(***************************************************************************)
Init ==
    /\ asm \in {AssemblyNew(n) : n \in 0..1}
    /\ ret = [op |-> "new"]
    /\ created = {}
    /\ placed = EmptyMap
    /\ compiled = [op |-> "none"]
    /\ parser = [tokens |-> <<>>, pos |-> 0]
    /\ parsed = [op |-> "none"]
    /\ loop = [pc |-> "idle"]

Size == Len(asm.instructions) + Cardinality(created)
          + Cardinality(DOMAIN asm.labels)

CanGrow == Size < MaxSize

CanPush == CanGrow

DoNewLabel ==
    /\ CanGrow
    /\ \E name \in Names :
         LET r == new_label(asm, name)
         IN /\ asm' = r.asm
            /\ ret' = [op |-> "new_label", name |-> name, val |-> r.val]
            /\ created' = created \cup {r.val}
            /\ UNCHANGED <<placed, compilerVars, parserVars>>

DoLabel ==
    \E l \in LabelArgs :
       LET r == label(asm, l)
       IN /\ l \in DOMAIN asm.labels \/ CanGrow
          /\ asm' = r.asm
          /\ ret' = [op |-> "label", label |-> l, val |-> r.val]
          /\ placed' = IF r.val.tag = "Ok"
                       THEN HashMapInsert(placed, l, Len(asm.instructions)).map
                       ELSE placed
          /\ UNCHANGED <<created, compilerVars, parserVars>>

DoJump ==
    /\ CanPush
    /\ \E l \in LabelArgs, span \in JumpSpans :
         /\ asm' = jump(asm, l, span)
         /\ ret' = [op |-> "jump", label |-> l, span |-> span, val |-> Unit]
         /\ UNCHANGED <<created, placed, compilerVars, parserVars>>

DoJumpIf ==
    /\ CanPush
    /\ \E l \in LabelArgs, span \in JumpSpans :
         /\ asm' = jump_if(asm, l, span)
         /\ ret' = [op |-> "jump_if", label |-> l, span |-> span, val |-> Unit]
         /\ UNCHANGED <<created, placed, compilerVars, parserVars>>

DoJumpIfNot ==
    /\ CanPush
    /\ \E l \in LabelArgs, span \in JumpSpans :
         /\ asm' = jump_if_not(asm, l, span)
         /\ ret' = [op |-> "jump_if_not", label |-> l, span |-> span, val |-> Unit]
         /\ UNCHANGED <<created, placed, compilerVars, parserVars>>

DoJumpIfBranch ==
    /\ CanPush
    /\ \E branch \in BranchArgs, l \in LabelArgs, span \in JumpSpans :
         /\ asm' = jump_if_branch(asm, branch, l, span)
         /\ ret' = [op |-> "jump_if_branch", branch |-> branch, label |-> l,
                    span |-> span, val |-> Unit]
         /\ UNCHANGED <<created, placed, compilerVars, parserVars>>

DoPopAndJumpIf ==
    /\ CanPush
    /\ \E count \in CountArgs, l \in LabelArgs, span \in JumpSpans :
         /\ asm' = pop_and_jump_if(asm, count, l, span)
         /\ ret' = [op |-> "pop_and_jump_if", count |-> count, label |-> l,
                    span |-> span, val |-> Unit]
         /\ UNCHANGED <<created, placed, compilerVars, parserVars>>

DoPopAndJumpIfNot ==
    /\ CanPush
    /\ \E count \in CountArgs, l \in LabelArgs, span \in JumpSpans :
         /\ asm' = pop_and_jump_if_not(asm, count, l, span)
         /\ ret' = [op |-> "pop_and_jump_if_not", count |-> count, label |-> l,
                    span |-> span, val |-> Unit]
         /\ UNCHANGED <<created, placed, compilerVars, parserVars>>

DoPush ==
    /\ CanPush
    /\ \E raw \in RawInsts, span \in Spans :
         /\ asm' = push(asm, raw, span)
         /\ ret' = [op |-> "push", raw |-> raw, span |-> span, val |-> Unit]
         /\ UNCHANGED <<created, placed, compilerVars, parserVars>>

DoPushWithComment ==
    /\ CanPush
    /\ \E raw \in RawInsts, span \in CommentSpans, comment \in Comments :
         /\ asm' = push_with_comment(asm, raw, span, comment)
         /\ ret' = [op |-> "push_with_comment", raw |-> raw, span |-> span,
                    comment |-> comment, val |-> Unit]
         /\ UNCHANGED <<created, placed, compilerVars, parserVars>>

Next ==
    \/ DoNewLabel
    \/ DoLabel
    \/ DoJump
    \/ DoJumpIf
    \/ DoJumpIfNot
    \/ DoJumpIfBranch
    \/ DoPopAndJumpIf
    \/ DoPopAndJumpIfNot
    \/ DoPush
    \/ DoPushWithComment

Spec == Init /\ [][Next]_vars

(***************************************************************************)
(* Compilation of `.await` and index-set expressions.                      *)
(***************************************************************************)
NeedsValue == "Value"
NeedsNone == "None"
Needs == {NeedsValue, NeedsNone}

\* Needs::value
needs_value(needs) == needs = NeedsValue

\* An operand of another expression kind: Lit compiles to one instruction
\* that pushes a value, Bad fails to compile.
Lit == [kind |-> "Lit"]
Bad == [kind |-> "Bad"]
Leaves == {Lit, Bad}

ExprAwait(e) == [kind |-> "Await", expr |-> e]

ExprIndexSet(t, i, v) ==
    [kind |-> "IndexSet", target |-> t, index |-> i, value |-> v]

\* The expressions with n await and index-set nodes.
RECURSIVE ExprsOfSize(_)
ExprsOfSize(n) ==
    IF n = 0 THEN Leaves
    ELSE {ExprAwait(e) : e \in ExprsOfSize(n - 1)}
         \cup UNION {{ExprIndexSet(t, i, v) :
                         t \in ExprsOfSize(ab[1]),
                         i \in ExprsOfSize(ab[2]),
                         v \in ExprsOfSize(n - 1 - ab[1] - ab[2])} :
                     ab \in {x \in (0..(n - 1)) \X (0..(n - 1)) :
                                x[1] + x[2] <= n - 1}}

Nodes == UNION {ExprsOfSize(n) : n \in 1..MaxNodes}
AwaitNodes == {e \in Nodes : e.kind = "Await"}
IndexSetNodes == {e \in Nodes : e.kind = "IndexSet"}

\* Source text: `e.await` and `t[i] = v`, a leaf being one character wide.
RECURSIVE Width(_)
Width(e) ==
    CASE e.kind = "Await" -> Width(e.expr) + 1
      [] e.kind = "IndexSet" ->
            Width(e.target) + Width(e.index) + Width(e.value) + 3
      [] OTHER -> 1

\* span() of the expression e that starts at source offset start
SpanOf(e, start) == MkSpan(start, start + Width(e))

TargetStart(e, start) == start
IndexStart(e, start) == start + Width(e.target) + 1
ValueStart(e, start) == start + Width(e.target) + Width(e.index) + 3

StartArgs == {0, 7}

InstInteger == [op |-> "Integer"]

OkUnit == [tag |-> "Ok"]
CompileError(span) == [kind |-> "CompileError", span |-> span]

\* compile of an operand of another expression kind
compile_operand(c, e, start, needs) ==
    IF e.kind = "Bad"
    THEN [c |-> c, val |-> Err(CompileError(SpanOf(e, start)))]
    ELSE [c |-> IF needs_value(needs)
                THEN [c EXCEPT !.asm = push(@, InstInteger, SpanOf(e, start))]
                ELSE c,
          val |-> OkUnit]

RECURSIVE compile(_, _, _, _)
RECURSIVE compile_expr_await(_, _, _, _)
RECURSIVE compile_expr_index_set(_, _, _, _)

\* Mutant of compile_expr_await: the test of needs is inverted.
compile_expr_await_PopInverted(c, e, start, needs) ==
    LET span == SpanOf(e, start)
        r1 == compile(c, e.expr, start, NeedsValue)
    IN IF r1.val.tag = "Err" THEN r1
       ELSE LET a1 == push(r1.c.asm, InstAwait, span)
                a2 == IF needs_value(needs) THEN push(a1, InstPop, span) ELSE a1
            IN [c |-> [r1.c EXCEPT !.asm = a2], val |-> OkUnit]

\* Mutant of compile_expr_await: the operand is compiled under the needs of
\* the node.
compile_expr_await_PassesNeeds(c, e, start, needs) ==
    LET span == SpanOf(e, start)
        r1 == compile(c, e.expr, start, needs)
    IN IF r1.val.tag = "Err" THEN r1
       ELSE LET a1 == push(r1.c.asm, InstAwait, span)
                a2 == IF ~needs_value(needs) THEN push(a1, InstPop, span) ELSE a1
            IN [c |-> [r1.c EXCEPT !.asm = a2], val |-> OkUnit]

\* Mutant of compile_expr_await: Await is pushed before the result of the
\* operand is looked at.
compile_expr_await_PushBeforeCheck(c, e, start, needs) ==
    LET span == SpanOf(e, start)
        r1 == compile(c, e.expr, start, NeedsValue)
        a1 == push(r1.c.asm, InstAwait, span)
    IN IF r1.val.tag = "Err"
       THEN [c |-> [r1.c EXCEPT !.asm = a1], val |-> r1.val]
       ELSE LET a2 == IF ~needs_value(needs) THEN push(a1, InstPop, span) ELSE a1
            IN [c |-> [r1.c EXCEPT !.asm = a2], val |-> OkUnit]

\* Compile<(&ast::ExprAwait, Needs)>::compile
compile_expr_await(c, e, start, needs) ==
    LET span == SpanOf(e, start)
        r1 == compile(c, e.expr, start, NeedsValue)
    IN IF r1.val.tag = "Err" THEN r1
       ELSE LET a1 == push(r1.c.asm, InstAwait, span)
                a2 == IF ~needs_value(needs) THEN push(a1, InstPop, span) ELSE a1
            IN [c |-> [r1.c EXCEPT !.asm = a2], val |-> OkUnit]

\* Mutant of compile_expr_index_set: the operands are compiled in source
\* order, target first.
compile_expr_index_set_SourceOrder(c, e, start, needs) ==
    LET span == SpanOf(e, start)
        r1 == compile(c, e.target, TargetStart(e, start), NeedsValue)
    IN IF r1.val.tag = "Err" THEN r1
       ELSE LET r2 == compile(r1.c, e.index, IndexStart(e, start), NeedsValue)
            IN IF r2.val.tag = "Err" THEN r2
               ELSE LET r3 == compile(r2.c, e.value, ValueStart(e, start),
                                      NeedsValue)
                    IN IF r3.val.tag = "Err" THEN r3
                       ELSE LET a1 == push(r3.c.asm, InstIndexSet, span)
                                a2 == IF needs_value(needs)
                                      THEN push(a1, InstUnit, span)
                                      ELSE a1
                            IN [c |-> [r3.c EXCEPT !.asm = a2], val |-> OkUnit]

\* Compile<(&ast::ExprIndexSet, Needs)>::compile
compile_expr_index_set(c, e, start, needs) ==
    LET span == SpanOf(e, start)
        r1 == compile(c, e.value, ValueStart(e, start), NeedsValue)
    IN IF r1.val.tag = "Err" THEN r1
       ELSE LET r2 == compile(r1.c, e.index, IndexStart(e, start), NeedsValue)
            IN IF r2.val.tag = "Err" THEN r2
               ELSE LET r3 == compile(r2.c, e.target, TargetStart(e, start),
                                      NeedsValue)
                    IN IF r3.val.tag = "Err" THEN r3
                       ELSE LET a1 == push(r3.c.asm, InstIndexSet, span)
                                a2 == IF needs_value(needs)
                                      THEN push(a1, InstUnit, span)
                                      ELSE a1
                            IN [c |-> [r3.c EXCEPT !.asm = a2], val |-> OkUnit]

\* self.compile((expr, needs)): the Compile impl of the expression's kind;
\* every call is logged, when it returns, with the instruction counts at
\* its entry and at its return.
compile(c, e, start, needs) ==
    LET from == Len(c.asm.instructions)
        r == CASE e.kind = "Await" -> compile_expr_await(c, e, start, needs)
               [] e.kind = "IndexSet" ->
                     compile_expr_index_set(c, e, start, needs)
               [] OTHER -> compile_operand(c, e, start, needs)
        entry == [expr |-> e, start |-> start, needs |-> needs,
                  from |-> from, to |-> Len(r.c.asm.instructions),
                  val |-> r.val]
    IN [c |-> [r.c EXCEPT !.calls = Append(@, entry)], val |-> r.val]

CompileInit ==
    /\ asm = AssemblyNew(0)
    /\ ret = [op |-> "new"]
    /\ created = {}
    /\ placed = EmptyMap
    /\ compiled = [op |-> "none"]
    /\ parser = [tokens |-> <<>>, pos |-> 0]
    /\ parsed = [op |-> "none"]
    /\ loop = [pc |-> "idle"]

\* A failed compilation discards the Assembly.
CanCompile ==
    /\ Len(asm.instructions) < MaxPrior
    /\ compiled.op = "compile" => compiled.val.tag = "Ok"

DoCompile(e, start, needs) ==
    LET r == compile([asm |-> asm, calls |-> <<>>], e, start, needs)
    IN /\ asm' = r.c.asm
       /\ compiled' = [op |-> "compile", expr |-> e, start |-> start,
                       needs |-> needs, val |-> r.val, calls |-> r.c.calls]
       /\ UNCHANGED <<ret, created, placed, parserVars>>

DoCompileExprAwait ==
    /\ CanCompile
    /\ \E e \in AwaitNodes, start \in StartArgs, needs \in Needs :
         DoCompile(e, start, needs)

DoCompileExprIndexSet ==
    /\ CanCompile
    /\ \E e \in IndexSetNodes, start \in StartArgs, needs \in Needs :
         DoCompile(e, start, needs)

CompileNext ==
    \/ DoCompileExprAwait
    \/ DoCompileExprIndexSet

CompileSpec == CompileInit /\ [][CompileNext]_vars


(***************************************************************************)
(* Parsing of struct declarations.                                         *)
(***************************************************************************)
KStruct == "struct"
KIdent == "ident"
KOpenParen == "("
KCloseParen == ")"
KOpenBrace == "{"
KCloseBrace == "}"
KComma == ","
KSemi == ";"

Kinds == {KStruct, KIdent, KOpenParen, KCloseParen, KOpenBrace, KCloseBrace,
          KComma, KSemi}

\* The sources parsed: an optional `struct Ident`, then nothing or any
\* token followed by identifiers, commas and closing delimiters.
TailKinds == {KIdent, KComma, KCloseParen, KCloseBrace}

Prefixes == {<<>>, <<KStruct, KIdent>>}

BodySeqs ==
    {<<>>} \cup {<<k>> \o t : k \in Kinds,
                              t \in UNION {[1..n -> TailKinds] :
                                              n \in 0..(MaxTokens - 1)}}

TokenSeqs == {pre \o body : pre \in Prefixes, body \in BodySeqs}

\* The i-th token of the source, with its span.
TokenAt(p, i) == [kind |-> p.tokens[i], span |-> MkSpan(2 * i, 2 * i + 1)]

AtEnd(p) == p.pos >= Len(p.tokens)

OkNode(n) == [tag |-> "Ok", node |-> n]

\* Parser::token_peek
token_peek(p) == IF AtEnd(p) THEN None ELSE Some(TokenAt(p, p.pos + 1))

\* Parser::token_next
token_next(p) ==
    IF AtEnd(p)
    THEN [p |-> p, val |-> Err([kind |-> "UnexpectedEof"])]
    ELSE [p |-> [p EXCEPT !.pos = @ + 1], val |-> OkNode(TokenAt(p, p.pos + 1))]

\* Parser::peek::<T> for a token type T of kind kind
peek(p, kind) ==
    LET token == token_peek(p)
    IN token # None /\ token.v.kind = kind

\* Parse for a token type of kind kind
parse_token(p, kind) ==
    LET r == token_next(p)
    IN IF r.val.tag = "Err" THEN r
       ELSE IF r.val.node.kind = kind THEN r
       ELSE [p |-> r.p,
             val |-> Err([kind |-> "TokenMismatch", expected |-> kind,
                          actual |-> r.val.node.kind,
                          span |-> r.val.node.span])]

\* Span::join
span_join(a, b) ==
    MkSpan(IF a.start <= b.start THEN a.start ELSE b.start,
           IF a.end >= b.end THEN a.end ELSE b.end)

\* Parse for EmptyBody
parse_empty_body(p) == [p |-> p, val |-> OkNode([kind |-> "EmptyBody"])]

RECURSIVE tuple_body_fields(_, _)

\* Mutant of tuple_body_fields: a comma must be followed by a field.
tuple_body_fields_NoTrailingComma(p, fields) ==
    IF fields = <<>> /\ peek(p, KCloseParen) THEN [p |-> p, val |-> OkNode(fields)]
    ELSE LET field == parse_token(p, KIdent)
         IN IF field.val.tag = "Err" THEN field
            ELSE IF peek(field.p, KComma)
            THEN LET comma == parse_token(field.p, KComma)
                 IN IF comma.val.tag = "Err" THEN comma
                    ELSE tuple_body_fields(
                             comma.p,
                             Append(fields,
                                    <<field.val.node, Some(comma.val.node)>>))
            ELSE [p |-> field.p,
                  val |-> OkNode(Append(fields, <<field.val.node, None>>))]

\* The loop of Parse for TupleBody; fields are those read so far.
tuple_body_fields(p, fields) ==
    IF peek(p, KCloseParen) THEN [p |-> p, val |-> OkNode(fields)]
    ELSE LET field == parse_token(p, KIdent)
         IN IF field.val.tag = "Err" THEN field
            ELSE IF peek(field.p, KComma)
            THEN LET comma == parse_token(field.p, KComma)
                 IN IF comma.val.tag = "Err" THEN comma
                    ELSE tuple_body_fields(
                             comma.p,
                             Append(fields,
                                    <<field.val.node, Some(comma.val.node)>>))
            ELSE [p |-> field.p,
                  val |-> OkNode(Append(fields, <<field.val.node, None>>))]

\* Parse for TupleBody
parse_tuple_body(p) ==
    LET open == parse_token(p, KOpenParen)
    IN IF open.val.tag = "Err" THEN open
       ELSE LET fields == tuple_body_fields(open.p, <<>>)
            IN IF fields.val.tag = "Err" THEN fields
               ELSE LET close == parse_token(fields.p, KCloseParen)
                    IN IF close.val.tag = "Err" THEN close
                       ELSE [p |-> close.p,
                             val |-> OkNode([kind |-> "TupleBody",
                                             open |-> open.val.node,
                                             fields |-> fields.val.node,
                                             close |-> close.val.node])]

RECURSIVE struct_body_fields(_, _)

\* Mutant of struct_body_fields: the loop goes on after a field without a
\* comma.
struct_body_fields_NoBreak(p, fields) ==
    IF peek(p, KCloseBrace) THEN [p |-> p, val |-> OkNode(fields)]
    ELSE LET field == parse_token(p, KIdent)
         IN IF field.val.tag = "Err" THEN field
            ELSE IF peek(field.p, KComma)
            THEN LET comma == parse_token(field.p, KComma)
                 IN IF comma.val.tag = "Err" THEN comma
                    ELSE struct_body_fields(
                             comma.p,
                             Append(fields,
                                    <<field.val.node, Some(comma.val.node)>>))
            ELSE struct_body_fields(
                     field.p, Append(fields, <<field.val.node, None>>))

\* The loop of Parse for StructBody; fields are those read so far.
struct_body_fields(p, fields) ==
    IF peek(p, KCloseBrace) THEN [p |-> p, val |-> OkNode(fields)]
    ELSE LET field == parse_token(p, KIdent)
         IN IF field.val.tag = "Err" THEN field
            ELSE IF peek(field.p, KComma)
            THEN LET comma == parse_token(field.p, KComma)
                 IN IF comma.val.tag = "Err" THEN comma
                    ELSE struct_body_fields(
                             comma.p,
                             Append(fields,
                                    <<field.val.node, Some(comma.val.node)>>))
            ELSE [p |-> field.p,
                  val |-> OkNode(Append(fields, <<field.val.node, None>>))]

\* Parse for StructBody
parse_struct_body(p) ==
    LET open == parse_token(p, KOpenBrace)
    IN IF open.val.tag = "Err" THEN open
       ELSE LET fields == struct_body_fields(open.p, <<>>)
            IN IF fields.val.tag = "Err" THEN fields
               ELSE LET close == parse_token(fields.p, KCloseBrace)
                    IN IF close.val.tag = "Err" THEN close
                       ELSE [p |-> close.p,
                             val |-> OkNode([kind |-> "StructBody",
                                             open |-> open.val.node,
                                             fields |-> fields.val.node,
                                             close |-> close.val.node])]

\* Mutant of parse_decl_struct_body: the token looked at is consumed.
parse_decl_struct_body_Consumes(p) ==
    LET next == token_next(p)
        token == IF next.val.tag = "Err" THEN None ELSE Some(next.val.node)
    IN IF token # None /\ token.v.kind = KOpenParen THEN parse_tuple_body(next.p)
       ELSE IF token # None /\ token.v.kind = KOpenBrace
       THEN parse_struct_body(next.p)
       ELSE parse_empty_body(next.p)

\* Parse for DeclStructBody
parse_decl_struct_body(p) ==
    LET token == token_peek(p)
    IN IF token # None /\ token.v.kind = KOpenParen THEN parse_tuple_body(p)
       ELSE IF token # None /\ token.v.kind = KOpenBrace
       THEN parse_struct_body(p)
       ELSE parse_empty_body(p)

\* Parse for DeclStruct
parse_decl_struct(p) ==
    LET struct_ == parse_token(p, KStruct)
    IN IF struct_.val.tag = "Err" THEN struct_
       ELSE LET ident == parse_token(struct_.p, KIdent)
            IN IF ident.val.tag = "Err" THEN ident
               ELSE LET body == parse_decl_struct_body(ident.p)
                    IN IF body.val.tag = "Err" THEN body
                       ELSE [p |-> body.p,
                             val |-> OkNode([kind |-> "DeclStruct",
                                             struct_ |-> struct_.val.node,
                                             ident |-> ident.val.node,
                                             body |-> body.val.node])]

\* TupleBody::span
tuple_body_span(body) == span_join(body.open.span, body.close.span)

\* StructBody::span
struct_body_span(body) == span_join(body.open.span, body.close.span)

\* DeclStruct::span
decl_struct_span(decl) ==
    LET start == decl.struct_.span
    IN CASE decl.body.kind = "EmptyBody" -> start
         [] decl.body.kind = "TupleBody" ->
               span_join(start, tuple_body_span(decl.body))
         [] decl.body.kind = "StructBody" ->
               span_join(start, struct_body_span(decl.body))

\* DeclStruct::needs_semi_colon
needs_semi_colon(decl) == decl.body.kind = "EmptyBody"

ParseInit ==
    /\ asm = AssemblyNew(0)
    /\ ret = [op |-> "new"]
    /\ created = {}
    /\ placed = EmptyMap
    /\ compiled = [op |-> "none"]
    /\ parser \in {[tokens |-> ts, pos |-> 0] : ts \in TokenSeqs}
    /\ parsed = [op |-> "none"]
    /\ loop = [pc |-> "idle"]

\* A parse failure is returned to the caller; parsing goes on after a
\* success only.
CanParse == parsed.op # "none" => parsed.val.tag = "Ok"

DoParse(op, r) ==
    /\ parser' = r.p
    /\ parsed' = [op |-> op, from |-> parser.pos, val |-> r.val]
    /\ UNCHANGED <<assemblyVars, compilerVars, loop>>

DoParseDeclStruct ==
    CanParse /\ DoParse("DeclStruct", parse_decl_struct(parser))

DoParseDeclStructBody ==
    CanParse /\ DoParse("DeclStructBody", parse_decl_struct_body(parser))

DoParseEmptyBody ==
    CanParse /\ DoParse("EmptyBody", parse_empty_body(parser))

DoParseTupleBody ==
    CanParse /\ DoParse("TupleBody", parse_tuple_body(parser))

DoParseStructBody ==
    CanParse /\ DoParse("StructBody", parse_struct_body(parser))

ParseNext ==
    \/ DoParseDeclStruct
    \/ DoParseDeclStructBody
    \/ DoParseEmptyBody
    \/ DoParseTupleBody
    \/ DoParseStructBody

ParseSpec == ParseInit /\ [][ParseNext]_vars

\* Mutant of field_list_step: a missing field is passed over and the loop
\* goes on without a comma.
field_list_step_OptionalField(p, fields) ==
    LET field == IF peek(p, KIdent) THEN parse_token(p, KIdent)
                 ELSE [p |-> p, val |-> OkNode(None)]
    IN IF peek(field.p, KComma)
       THEN LET comma == parse_token(field.p, KComma)
            IN IF comma.val.tag = "Err"
               THEN [p |-> comma.p, fields |-> fields, val |-> comma.val]
               ELSE [p |-> comma.p,
                     fields |-> Append(fields, <<field.val.node,
                                                 Some(comma.val.node)>>),
                     val |-> [tag |-> "Continue"]]
       ELSE [p |-> field.p,
             fields |-> Append(fields, <<field.val.node, None>>),
             val |-> [tag |-> "Continue"]]

\* One run of the body of the while loop of Parse for TupleBody and Parse
\* for StructBody: the cursor and the fields after it, and whether the
\* loop goes on, breaks or returns an error.
field_list_step(p, fields) ==
    LET field == parse_token(p, KIdent)
    IN IF field.val.tag = "Err"
       THEN [p |-> field.p, fields |-> fields, val |-> field.val]
       ELSE IF peek(field.p, KComma)
       THEN LET comma == parse_token(field.p, KComma)
            IN IF comma.val.tag = "Err"
               THEN [p |-> comma.p, fields |-> fields, val |-> comma.val]
               ELSE [p |-> comma.p,
                     fields |-> Append(fields, <<field.val.node,
                                                 Some(comma.val.node)>>),
                     val |-> [tag |-> "Continue"]]
       ELSE [p |-> field.p,
             fields |-> Append(fields, <<field.val.node, None>>),
             val |-> [tag |-> "Break"]]

\* A body parser run one step at a time on a source.
LoopInit ==
    /\ asm = AssemblyNew(0)
    /\ ret = [op |-> "new"]
    /\ created = {}
    /\ placed = EmptyMap
    /\ compiled = [op |-> "none"]
    /\ parser \in {[tokens |-> ts, pos |-> 0] : ts \in BodySeqs}
    /\ parsed = [op |-> "none"]
    /\ loop \in {[pc |-> "open", op |-> op, fields |-> <<>>] :
                    op \in {"TupleBody", "StructBody"}}

LoopOpenKind == IF loop.op = "TupleBody" THEN KOpenParen ELSE KOpenBrace
LoopCloseKind == IF loop.op = "TupleBody" THEN KCloseParen ELSE KCloseBrace

LoopReturn(p, val) ==
    /\ parser' = p
    /\ loop' = [pc |-> "done", op |-> loop.op, fields |-> loop.fields,
                val |-> val]

\* let open = parser.parse()?;
LoopOpen ==
    /\ loop.pc = "open"
    /\ LET open == parse_token(parser, LoopOpenKind)
       IN IF open.val.tag = "Err" THEN LoopReturn(open.p, open.val)
          ELSE /\ parser' = open.p
               /\ loop' = [pc |-> "while", op |-> loop.op,
                           open |-> open.val.node, fields |-> <<>>]
    /\ UNCHANGED <<assemblyVars, compilerVars, parsed>>

\* while !parser.peek::<Close>()? is false: the loop is left.
LoopExit ==
    /\ loop.pc = "while"
    /\ peek(parser, LoopCloseKind)
    /\ loop' = [loop EXCEPT !.pc = "close"]
    /\ UNCHANGED <<assemblyVars, compilerVars, parser, parsed>>

\* One iteration of the while loop.
LoopIter ==
    /\ loop.pc = "while"
    /\ ~peek(parser, LoopCloseKind)
    /\ LET r == field_list_step(parser, loop.fields)
       IN CASE r.val.tag = "Err" -> LoopReturn(r.p, r.val)
            [] r.val.tag = "Continue" ->
                  /\ parser' = r.p
                  /\ loop' = [loop EXCEPT !.fields = r.fields]
            [] r.val.tag = "Break" ->
                  /\ parser' = r.p
                  /\ loop' = [loop EXCEPT !.fields = r.fields, !.pc = "close"]
    /\ UNCHANGED <<assemblyVars, compilerVars, parsed>>

\* let close = parser.parse()?; Ok(Self { open, fields, close })
LoopClose ==
    /\ loop.pc = "close"
    /\ LET close == parse_token(parser, LoopCloseKind)
       IN IF close.val.tag = "Err" THEN LoopReturn(close.p, close.val)
          ELSE LoopReturn(close.p,
                          OkNode([kind |-> loop.op, open |-> loop.open,
                                  fields |-> loop.fields,
                                  close |-> close.val.node]))
    /\ UNCHANGED <<assemblyVars, compilerVars, parsed>>

LoopNext ==
    \/ LoopOpen
    \/ LoopExit
    \/ LoopIter
    \/ LoopClose

\* The parser is sequential code: a step that can be taken is taken.
LoopSpec == LoopInit /\ [][LoopNext]_vars /\ WF_vars(LoopNext)

(***************************************************************************)
(* Properties of the Assembly.                                             *)
(***************************************************************************)
\* The spans, in push order, of the Call instructions with hash h.
RECURSIVE CallSpans(_, _)
CallSpans(insts, h) ==
    IF insts = <<>> THEN <<>>
    ELSE LET e == Head(insts)
             isCall == /\ e[1].kind = "Raw"
                       /\ e[1].raw.op = "Call"
                       /\ e[1].raw.hash = h
         IN (IF isCall THEN <<e[2]>> ELSE <<>>) \o CallSpans(Tail(insts), h)

MapGet(m, k, default) == IF k \in DOMAIN m THEN m[k] ELSE default

JumpOps == {"jump", "jump_if", "jump_if_not", "jump_if_branch",
            "pop_and_jump_if", "pop_and_jump_if_not"}

\* The symbolic entry a jump-family call described by r is to append.
JumpEntryOf(r) ==
    CASE r.op = "jump" -> [kind |-> "Jump", label |-> r.label]
      [] r.op = "jump_if" -> [kind |-> "JumpIf", label |-> r.label]
      [] r.op = "jump_if_not" -> [kind |-> "JumpIfNot", label |-> r.label]
      [] r.op = "jump_if_branch" ->
            [kind |-> "JumpIfBranch", branch |-> r.branch, label |-> r.label]
      [] r.op = "pop_and_jump_if" ->
            [kind |-> "PopAndJumpIf", count |-> r.count, label |-> r.label]
      [] r.op = "pop_and_jump_if_not" ->
            [kind |-> "PopAndJumpIfNot", count |-> r.count, label |-> r.label]

\* C1: label(l) succeeds exactly when l was not placed before on this
\* Assembly; on success it returns l and binds labels[l] to the number of
\* instructions pushed so far; on an already placed label it returns the
\* DuplicateLabel error carrying l.
C1_LabelSucceedsIffUnplaced ==
    [][ret'.op = "label" =>
         LET l == ret'.label
         IN /\ (ret'.val.tag = "Ok") <=> (l \notin DOMAIN placed)
            /\ l \notin DOMAIN placed =>
                 /\ ret'.val = Ok(l)
                 /\ l \in DOMAIN asm'.labels
                 /\ asm'.labels[l] = Len(asm.instructions)
                 /\ Len(asm'.instructions) = Len(asm.instructions)
            /\ l \in DOMAIN placed => ret'.val = Err(DuplicateLabel(l))]_vars

\* C1 witness: a placement at a non-zero offset has succeeded and a later
\* label call on a placed label has returned DuplicateLabel.
C1_Witness ==
    /\ ret.op = "label"
    /\ ret.val.tag = "Err"
    /\ \E l \in DOMAIN placed : placed[l] > 0

C3_DuplicateKeepsFirstOffset ==
    [][(ret'.op = "label" /\ ret'.val.tag = "Err") =>
         /\ asm'.labels[ret'.label] = placed[ret'.label]
         /\ asm'.labels_rev = asm.labels_rev
         /\ asm'.instructions = asm.instructions
         /\ asm'.comments = asm.comments
         /\ asm'.required_functions = asm.required_functions
         /\ asm'.label_count = asm.label_count]_vars

\* C4: new_label returns a label no earlier new_label call returned, with
\* the given tag and an ident below label_count; label_count grows by
\* exactly 1, and labels, labels_rev and instructions are unchanged.
C4_NewLabelFresh ==
    [][/\ \A l \in created' : l.ident < asm'.label_count
       /\ ret'.op = "new_label" =>
            /\ ret'.val \notin created
            /\ \A l \in created : l.ident # ret'.val.ident
            /\ ret'.val.name = ret'.name
            /\ ret'.val.ident < asm'.label_count
            /\ asm'.label_count = asm.label_count + 1
            /\ asm'.labels = asm.labels
            /\ asm'.labels_rev = asm.labels_rev
            /\ asm'.instructions = asm.instructions]_vars

\* C4 witness: two labels with the same tag have been returned, with other
\* operations in between.
C4_Witness ==
    /\ ret.op = "new_label"
    /\ \E l \in created : l # ret.val /\ l.name = ret.val.name
    /\ DOMAIN asm.labels # {}

\* C7: required_functions[h] is the sequence, in push order, of the spans
\* of the Call instructions with hash h, and has no other entry; a call
\* other than push and push_with_comment of a Call leaves it unchanged.
C7_LinkHashAggregation ==
    [][/\ DOMAIN asm'.required_functions =
             {h \in Hashes : CallSpans(asm'.instructions, h) # <<>>}
       /\ \A h \in DOMAIN asm'.required_functions :
             asm'.required_functions[h] = CallSpans(asm'.instructions, h)
       /\ ~(ret'.op \in {"push", "push_with_comment"} /\ ret'.raw.op = "Call")
             => asm'.required_functions = asm.required_functions]_vars

\* C7 witness: two calls of one hash from different spans, with a call of
\* another hash between them, are held under one entry.
C7_Witness ==
    \E h \in DOMAIN asm.required_functions :
       /\ Len(asm.required_functions[h]) = 2
       /\ asm.required_functions[h][1] # asm.required_functions[h][2]
       /\ Cardinality(DOMAIN asm.required_functions) = 2

\* C8: push_with_comment(inst, span, text) changes instructions and
\* required_functions as push(inst, span) does, and appends text to
\* comments[k], k the instruction count before the push and the index of
\* the instruction appended.
C8_PushWithComment ==
    [][ret'.op = "push_with_comment" =>
         LET k == Len(asm.instructions)
         IN /\ asm'.instructions = push(asm, ret'.raw, ret'.span).instructions
            /\ asm'.required_functions =
                  push(asm, ret'.raw, ret'.span).required_functions
            /\ asm'.instructions =
                  Append(asm.instructions,
                         <<[kind |-> "Raw", raw |-> ret'.raw], ret'.span>>)
            /\ DOMAIN asm'.comments = DOMAIN asm.comments \cup {k}
            /\ asm'.comments[k] =
                  Append(MapGet(asm.comments, k, <<>>), ret'.comment)
            /\ \A j \in DOMAIN asm.comments \ {k} :
                  asm'.comments[j] = asm.comments[j]
            /\ asm'.labels = asm.labels
            /\ asm'.labels_rev = asm.labels_rev
            /\ asm'.label_count = asm.label_count]_vars

\* C8 witness: a commented call has been pushed at a non-zero offset.
C8_Witness ==
    /\ ret.op = "push_with_comment"
    /\ ret.raw.op = "Call"
    /\ Len(asm.instructions) >= 2
    /\ (Len(asm.instructions) - 1) \in DOMAIN asm.comments

\* C9: each jump-family call appends exactly one symbolic entry of its
\* variant, holding the given label (and branch or count) and span, whether
\* or not the label was placed or allocated, and leaves labels, labels_rev,
\* comments, required_functions and label_count unchanged.
C9_JumpFamilyFrame ==
    [][ret'.op \in JumpOps =>
         /\ asm'.instructions =
               Append(asm.instructions, <<JumpEntryOf(ret'), ret'.span>>)
         /\ asm'.labels = asm.labels
         /\ asm'.labels_rev = asm.labels_rev
         /\ asm'.comments = asm.comments
         /\ asm'.required_functions = asm.required_functions
         /\ asm'.label_count = asm.label_count]_vars

\* C9 witness: a jump to a label neither allocated nor placed follows a
\* jump to a placed label.
C9_Witness ==
    /\ ret.op = "pop_and_jump_if_not"
    /\ ret.label \notin created
    /\ ret.label \notin DOMAIN asm.labels
    /\ Len(asm.instructions) = 2
    /\ asm.instructions[1][1].kind # "Raw"
    /\ asm.instructions[1][1].label \in created

\* C13: a label call on a label not placed before, at an offset where
\* other labels were placed, succeeds; labels_rev at that offset then holds
\* the label placed last, and labels keeps every one of them bound to the
\* offset.
C13_SameOffsetLastWins ==
    [][(ret'.op = "label" /\ ret'.label \notin DOMAIN placed) =>
         LET offset == Len(asm.instructions)
         IN /\ ret'.val = Ok(ret'.label)
            /\ asm'.labels_rev[offset] = ret'.label
            /\ asm'.labels[ret'.label] = offset
            /\ \A k \in DOMAIN placed :
                  placed[k] = offset => asm'.labels[k] = offset]_vars

\* C13 witness: two labels have been placed at one offset,
\* and labels_rev holds the second.
C13_Witness ==
    /\ ret.op = "label"
    /\ ret.val.tag = "Ok"
    /\ \E k \in DOMAIN placed :
          /\ k # ret.label
          /\ placed[k] = placed[ret.label]
          /\ asm.labels[k] = asm.labels[ret.label]
          /\ asm.labels_rev[placed[k]] = ret.label

PushOps == JumpOps \cup {"push", "push_with_comment"}

\* C17: no call removes, reorders or changes an entry of instructions;
\* push, push_with_comment and the jump family add exactly one entry at the
\* end, new_label and label (failing or not) leave instructions unchanged.
C17_AppendOnly ==
    [][/\ Len(asm'.instructions) >= Len(asm.instructions)
       /\ \A i \in DOMAIN asm.instructions :
             asm'.instructions[i] = asm.instructions[i]
       /\ ret'.op \in PushOps =>
             Len(asm'.instructions) = Len(asm.instructions) + 1
       /\ ret'.op \in {"new_label", "label"} =>
             asm'.instructions = asm.instructions]_vars

\* C17 witness: a failing label call on an Assembly of two instructions, a
\* jump followed by a raw instruction.
C17_Witness ==
    /\ ret.op = "label"
    /\ ret.val.tag = "Err"
    /\ Len(asm.instructions) = 2
    /\ asm.instructions[1][1].kind = "Jump"
    /\ asm.instructions[2][1].kind = "Raw"

\* C18: every offset of labels and every key of labels_rev is at most the
\* number of instructions; as long as no label call has failed, labels
\* holds the placements and every key of labels_rev is the offset of a
\* label of labels.
C18_LabelOffsetsInRange ==
    [][/\ \A l \in DOMAIN asm'.labels :
             asm'.labels[l] <= Len(asm'.instructions)
       /\ \A o \in DOMAIN asm'.labels_rev : o <= Len(asm'.instructions)
       /\ (asm.labels = placed /\ ~(ret'.op = "label" /\ ret'.val.tag = "Err"))
             => asm'.labels = placed'
       /\ asm'.labels = placed' =>
             \A o \in DOMAIN asm'.labels_rev :
                \E l \in DOMAIN asm'.labels : asm'.labels[l] = o]_vars

\* C18 witness: with no failed label call, a label is bound one past the
\* last of two instructions.
C18_Witness ==
    /\ asm.labels = placed
    /\ Len(asm.instructions) = 2
    /\ 2 \in DOMAIN asm.labels_rev
    /\ asm.labels[asm.labels_rev[2]] = 2

\* C19: every key k of comments is below the number of instructions, the
\* instruction at index k is a Raw instruction, and comments[k] holds
\* exactly one annotation.
C19_CommentsAnnotateRaw ==
    \A k \in DOMAIN asm.comments :
       /\ k < Len(asm.instructions)
       /\ asm.instructions[k + 1][1].kind = "Raw"
       /\ Len(asm.comments[k]) = 1

\* C19 witness: two commented instructions follow a jump.
C19_Witness ==
    /\ Len(asm.instructions) = 3
    /\ asm.instructions[1][1].kind # "Raw"
    /\ DOMAIN asm.comments = {1, 2}

(***************************************************************************)
(* Properties of the compiler.                                             *)
(***************************************************************************)
\* The change of the stack depth an instruction makes: Await pops one value
\* and pushes one, Pop pops one, IndexSet pops three, Unit pushes one, and
\* the instruction of an operand pushes one.
StackEffect(raw) ==
    CASE raw.op = "Await" -> 0
      [] raw.op = "Pop" -> -1
      [] raw.op = "IndexSet" -> -3
      [] raw.op = "Unit" -> 1
      [] raw.op = "Integer" -> 1

RECURSIVE NetDepth(_)
NetDepth(insts) ==
    IF insts = <<>> THEN 0
    ELSE StackEffect(Head(insts)[1].raw) + NetDepth(Tail(insts))

\* The instructions pushed during the logged compile call c.
Emitted(c) == SubSeq(asm.instructions, c.from + 1, c.to)

NodeCalls ==
    IF compiled.op = "compile"
    THEN {compiled.calls[k] : k \in DOMAIN compiled.calls}
    ELSE {}

Within(inner, outer) == inner.start >= outer.start /\ inner.end <= outer.end

\* C5: every successful compile of an await or index-set node, at any
\* nesting depth, leaves the net stack depth of the instructions it pushed
\* at +1 under Needs::Value and at 0 under Needs::None.
C5_NeedsInvariant ==
    compiled.op = "compile" =>
      /\ compiled.calls[Len(compiled.calls)].expr = compiled.expr
      /\ compiled.calls[Len(compiled.calls)].needs = compiled.needs
      /\ compiled.calls[Len(compiled.calls)].to = Len(asm.instructions)
      /\ \A c \in NodeCalls :
           (c.val.tag = "Ok" /\ c.expr.kind \in {"Await", "IndexSet"}) =>
              NetDepth(Emitted(c)) = IF c.needs = NeedsValue THEN 1 ELSE 0

\* C5 witness: an index-set whose value is an await has been compiled
\* under Needs::None into an Assembly that held instructions already.
C5_Witness ==
    /\ compiled.op = "compile"
    /\ compiled.val.tag = "Ok"
    /\ compiled.needs = NeedsNone
    /\ compiled.expr.kind = "IndexSet"
    /\ compiled.expr.value.kind = "Await"
    /\ compiled.calls[1].from > 0

\* The place of a pushed entry in the compile of index-set node c: 1 an
\* instruction of the value, 2 of the index, 3 of the target, 4 the
\* IndexSet instruction, 5 the Unit instruction, 0 anything else.
IndexSetPlace(c, entry) ==
    LET e == c.expr
        span == entry[2]
        raw == entry[1].raw
    IN CASE Within(span, SpanOf(e.value, ValueStart(e, c.start))) -> 1
         [] Within(span, SpanOf(e.index, IndexStart(e, c.start))) -> 2
         [] Within(span, SpanOf(e.target, TargetStart(e, c.start))) -> 3
         [] span = SpanOf(e, c.start) /\ raw = InstIndexSet -> 4
         [] span = SpanOf(e, c.start) /\ raw = InstUnit -> 5
         [] OTHER -> 0

\* C6: in the instructions of a compiled `t[i] = v` all instructions of v
\* precede all of i, which precede all of t, which precede the single
\* IndexSet instruction, under either needs; a Unit instruction follows
\* IndexSet exactly when needs is Value.
C6_EvaluationOrder ==
    \A c \in NodeCalls :
       (c.val.tag = "Ok" /\ c.expr.kind = "IndexSet") =>
          LET seg == Emitted(c)
              at(j) == IndexSetPlace(c, seg[j])
              count(n) == Cardinality({j \in DOMAIN seg : at(j) = n})
          IN /\ \A j \in DOMAIN seg : at(j) # 0
             /\ \A j, k \in DOMAIN seg : j < k => at(j) <= at(k)
             /\ count(1) >= 1 /\ count(2) >= 1 /\ count(3) >= 1
             /\ count(4) = 1
             /\ count(5) = IF c.needs = NeedsValue THEN 1 ELSE 0

\* C6 witness: an index-set whose index is itself an index-set has been
\* compiled under Needs::None.
C6_Witness ==
    /\ compiled.op = "compile"
    /\ compiled.val.tag = "Ok"
    /\ compiled.needs = NeedsNone
    /\ compiled.expr.kind = "IndexSet"
    /\ compiled.expr.index.kind = "IndexSet"

\* The operands of node e at source offset start, in the order in which
\* the node's compile compiles them.
Operands(e, start) ==
    CASE e.kind = "Await" -> <<[expr |-> e.expr, start |-> start]>>
      [] e.kind = "IndexSet" ->
            <<[expr |-> e.value, start |-> ValueStart(e, start)],
              [expr |-> e.index, start |-> IndexStart(e, start)],
              [expr |-> e.target, start |-> TargetStart(e, start)]>>
      [] OTHER -> <<>>

\* The logged compile calls on operand o.
CallsOf(o) ==
    {k \in DOMAIN compiled.calls :
        /\ compiled.calls[k].expr = o.expr
        /\ compiled.calls[k].start = o.start}

\* The instructions that the compile of node c pushed with the node's span.
OwnInsts(c) ==
    LET own == SelectSeq(Emitted(c),
                         LAMBDA entry : entry[2] = SpanOf(c.expr, c.start))
    IN [i \in DOMAIN own |-> own[i][1].raw]

\* C15: every compile of an operand of an await or index-set node is under
\* Needs::Value, whatever the needs of the node; a node that compiles has
\* compiled each of its operands exactly once; of its own the node pushes
\* Await, followed by Pop iff its needs is None, or IndexSet, followed by
\* Unit iff its needs is Value.
C15_OperandsUnderValue ==
    compiled.op = "compile" =>
      \A k \in DOMAIN compiled.calls :
         LET c == compiled.calls[k]
             ops == Operands(c.expr, c.start)
         IN /\ \A i \in DOMAIN ops :
                 /\ Cardinality(CallsOf(ops[i])) <= 1
                 /\ \A j \in CallsOf(ops[i]) :
                       /\ j < k
                       /\ compiled.calls[j].needs = NeedsValue
            /\ (c.val.tag = "Ok" /\ c.expr.kind = "Await") =>
                 /\ \A i \in DOMAIN ops : Cardinality(CallsOf(ops[i])) = 1
                 /\ OwnInsts(c) = IF c.needs = NeedsNone
                                  THEN <<InstAwait, InstPop>>
                                  ELSE <<InstAwait>>
            /\ (c.val.tag = "Ok" /\ c.expr.kind = "IndexSet") =>
                 /\ \A i \in DOMAIN ops : Cardinality(CallsOf(ops[i])) = 1
                 /\ OwnInsts(c) = IF c.needs = NeedsValue
                                  THEN <<InstIndexSet, InstUnit>>
                                  ELSE <<InstIndexSet>>

\* C15 witness: an index-set whose target is an await has been compiled
\* under Needs::None; the await and its operand were compiled under
\* Needs::Value.
C15_Witness ==
    /\ compiled.op = "compile"
    /\ compiled.val.tag = "Ok"
    /\ compiled.needs = NeedsNone
    /\ compiled.expr.kind = "IndexSet"
    /\ compiled.expr.target.kind = "Await"
    /\ \E j, k \in DOMAIN compiled.calls :
          /\ compiled.calls[k].expr = compiled.expr.target
          /\ compiled.calls[k].needs = NeedsValue
          /\ compiled.calls[j].expr = compiled.expr.target.expr
          /\ compiled.calls[j].start = compiled.calls[k].start
          /\ compiled.calls[j].needs = NeedsValue

\* The operands of node call c that were compiled.
Compiled(c) ==
    {i \in DOMAIN Operands(c.expr, c.start) :
        CallsOf(Operands(c.expr, c.start)[i]) # {}}

\* The logged call on the i-th operand of node call c.
OperandCall(c, i) ==
    compiled.calls[CHOOSE j \in CallsOf(Operands(c.expr, c.start)[i]) : TRUE]

\* A node call fails exactly when the compile of one of its operands
\* fails: it returns the error of that operand, has compiled the operands
\* before it and none after it, and has pushed what these operands pushed
\* and nothing of its own.
FailFast ==
    compiled.op = "compile" =>
      \A k \in DOMAIN compiled.calls :
         LET c == compiled.calls[k]
             failed == {i \in Compiled(c) : OperandCall(c, i).val.tag = "Err"}
         IN c.expr.kind \in {"Await", "IndexSet"} =>
              /\ c.val.tag = "Err" <=> failed # {}
              /\ \A f \in failed :
                    /\ c.val = OperandCall(c, f).val
                    /\ Compiled(c) = 1..f
                    /\ failed = {f}
                    /\ OperandCall(c, 1).from = c.from
                    /\ \A i \in 2..f :
                          OperandCall(c, i).from = OperandCall(c, i - 1).to
                    /\ c.to = OperandCall(c, f).to
                    /\ OwnInsts(c) = <<>>

\* C16: a compile keeps every instruction that was in the Assembly and adds
\* what its calls pushed, whether it fails or not; a node whose operand
\* fails to compile returns the error of that operand unchanged, compiles
\* no later operand and pushes no instruction of its own, and what the
\* operands before the failing one pushed stays in the Assembly.
C16_FailFastNoRollback ==
    [][compiled'.op = "compile" =>
         LET top == compiled'.calls[Len(compiled'.calls)]
         IN /\ \A i \in DOMAIN asm.instructions :
                  asm'.instructions[i] = asm.instructions[i]
            /\ top.from = Len(asm.instructions)
            /\ top.to = Len(asm'.instructions)
            /\ \A k \in DOMAIN compiled'.calls :
                  /\ compiled'.calls[k].from >= top.from
                  /\ compiled'.calls[k].to <= top.to
                  /\ compiled'.calls[k].from <= compiled'.calls[k].to
            /\ FailFast']_vars

\* C16 witness: the index of an index-set failed to compile after its value
\* had pushed an instruction, into an Assembly that held instructions; the
\* target was not compiled and the instruction of the value is the last of
\* the Assembly.
C16_Witness ==
    /\ compiled.op = "compile"
    /\ compiled.val.tag = "Err"
    /\ compiled.expr.kind = "IndexSet"
    /\ compiled.expr.index = Bad
    /\ Len(compiled.calls) = 3
    /\ compiled.calls[1].from > 0
    /\ compiled.calls[1].to = compiled.calls[1].from + 1
    /\ Len(asm.instructions) = compiled.calls[1].to
    /\ asm.instructions[Len(asm.instructions)][1].raw = InstInteger

(***************************************************************************)
(* Properties of the parser.                                               *)
(***************************************************************************)
\* The kind of the token at the cursor position pos, "eof" at the end.
KindAt(pos) ==
    IF pos < Len(parser.tokens) THEN parser.tokens[pos + 1] ELSE "eof"

ParserAt(pos) == [tokens |-> parser.tokens, pos |-> pos]

\* C10: the struct body is chosen by the next token, which is not
\* consumed by the choice: after `(` the positional body is parsed from
\* that token, after `{` the named body, and on any other token or the end
\* of input the empty body is returned and the cursor is unchanged.
C10_BodyLookahead ==
    /\ parsed.op = "DeclStructBody" =>
         LET from == ParserAt(parsed.from)
             kind == KindAt(parsed.from)
         IN /\ kind = KOpenParen =>
                 /\ parsed.val = parse_tuple_body(from).val
                 /\ parser = parse_tuple_body(from).p
                 /\ parsed.val.tag = "Ok" =>
                      /\ parsed.val.node.kind = "TupleBody"
                      /\ parsed.val.node.open = TokenAt(parser, parsed.from + 1)
            /\ kind = KOpenBrace =>
                 /\ parsed.val = parse_struct_body(from).val
                 /\ parser = parse_struct_body(from).p
                 /\ parsed.val.tag = "Ok" =>
                      /\ parsed.val.node.kind = "StructBody"
                      /\ parsed.val.node.open = TokenAt(parser, parsed.from + 1)
            /\ kind \notin {KOpenParen, KOpenBrace} =>
                 /\ parsed.val = OkNode([kind |-> "EmptyBody"])
                 /\ parser.pos = parsed.from
    /\ (parsed.op = "DeclStruct" /\ parsed.val.tag = "Ok") =>
         LET kind == KindAt(parsed.from + 2)
         IN parsed.val.node.body.kind =
               CASE kind = KOpenParen -> "TupleBody"
                 [] kind = KOpenBrace -> "StructBody"
                 [] OTHER -> "EmptyBody"

\* C10 witness: a body parsed in front of a token that opens no body is
\* the empty body, and the token is still the next one.
C10_Witness ==
    /\ parsed.op = "DeclStructBody"
    /\ KindAt(parsed.from) = KSemi
    /\ parsed.val.tag = "Ok"
    /\ parsed.val.node.kind = "EmptyBody"
    /\ parser.pos = parsed.from

\* The kinds of `open f1 , f2 , ... fn close`, with a comma after fn when
\* trailing.
RECURSIVE FieldKinds(_, _)
FieldKinds(n, trailing) ==
    IF n = 0 THEN <<>>
    ELSE IF n = 1 THEN (IF trailing THEN <<KIdent, KComma>> ELSE <<KIdent>>)
    ELSE <<KIdent, KComma>> \o FieldKinds(n - 1, trailing)

FieldListKinds(open, n, trailing, close) ==
    <<open>> \o FieldKinds(n, trailing) \o <<close>>

\* The tokens after cursor position pos are of the kinds of seq.
KindsMatch(pos, seq) ==
    /\ pos + Len(seq) <= Len(parser.tokens)
    /\ \A j \in DOMAIN seq : parser.tokens[pos + j] = seq[j]

BodyOps == {"TupleBody", "StructBody"}
OpenOf(op) == IF op = "TupleBody" THEN KOpenParen ELSE KOpenBrace
CloseOf(op) == IF op = "TupleBody" THEN KCloseParen ELSE KCloseBrace

\* C11: a positional or named body of n identifiers separated by commas,
\* with or without a trailing comma, parses to exactly n fields in source
\* order; in every parsed body each field but the last has a comma, and
\* the cursor is left right after the closing delimiter.
C11_FieldList ==
    parsed.op \in BodyOps =>
      LET from == parsed.from
          node == parsed.val.node
      IN /\ \A n \in 0..MaxTokens, trailing \in BOOLEAN :
              LET seq == FieldListKinds(OpenOf(parsed.op), n, trailing,
                                        CloseOf(parsed.op))
              IN ((n = 0 => ~trailing) /\ KindsMatch(from, seq)) =>
                   /\ parsed.val.tag = "Ok"
                   /\ Len(node.fields) = n
                   /\ \A j \in 1..n :
                        node.fields[j][1] = TokenAt(parser, from + 2 * j)
                   /\ n > 0 => (node.fields[n][2] # None) = trailing
                   /\ parser.pos = from + Len(seq)
         /\ parsed.val.tag = "Ok" =>
              /\ \A j \in 1..(Len(node.fields) - 1) : node.fields[j][2] # None
              /\ \A j \in 1..(Len(node.fields) - 1) :
                   node.fields[j][1].span.start < node.fields[j + 1][1].span.start
              /\ node.close = TokenAt(parser, parser.pos)
              /\ node.close.kind = CloseOf(parsed.op)

\* C11 witness: `(a, b,)` has been parsed to two fields.
C11_Witness ==
    /\ parsed.op = "TupleBody"
    /\ parsed.val.tag = "Ok"
    /\ Len(parsed.val.node.fields) = 2
    /\ parsed.val.node.fields[2][2] # None
    /\ parser.pos = parsed.from + 6

\* C12: after a field that no comma follows, the parser reads no further
\* field and requires the matching closing delimiter as the next token; on
\* any other token (an identifier, the other closing delimiter) or the end
\* of input the parse fails and yields no body.
C12_MissingCommaCloses ==
    parsed.op \in BodyOps =>
      \A n \in 1..MaxTokens :
         LET seq == <<OpenOf(parsed.op)>> \o FieldKinds(n, FALSE)
             after == parsed.from + Len(seq)
             next == KindAt(after)
         IN (KindsMatch(parsed.from, seq) /\ next # KComma) =>
              /\ next = CloseOf(parsed.op) =>
                   /\ parsed.val.tag = "Ok"
                   /\ Len(parsed.val.node.fields) = n
                   /\ parsed.val.node.fields[n][2] = None
              /\ next # CloseOf(parsed.op) =>
                   /\ parsed.val.tag = "Err"
                   /\ next = "eof" =>
                        /\ parsed.val.error.kind = "UnexpectedEof"
                        /\ parser.pos = after
                   /\ next # "eof" =>
                        /\ parsed.val.error.kind = "TokenMismatch"
                        /\ parsed.val.error.expected = CloseOf(parsed.op)
                        /\ parsed.val.error.actual = next
                        /\ parsed.val.error.span =
                              TokenAt(parser, after + 1).span
                        /\ parser.pos = after + 1

\* C12 witness: `(a b` has been refused at b, where `)` was required.
C12_Witness ==
    /\ parsed.op = "TupleBody"
    /\ KindsMatch(parsed.from, <<KOpenParen, KIdent, KIdent>>)
    /\ parsed.val.tag = "Err"
    /\ parsed.val.error.kind = "TokenMismatch"
    /\ parsed.val.error.expected = KCloseParen
    /\ parsed.val.error.actual = KIdent

\* C14 (as stated): the span of a parsed struct declaration is the join of
\* the span of the struct keyword and the span of the last token of the
\* declaration: the closing delimiter of a tuple or struct body, the
\* identifier when the body is empty.
C14_SpanCoversDeclaration ==
    (parsed.op = "DeclStruct" /\ parsed.val.tag = "Ok") =>
       decl_struct_span(parsed.val.node) =
          span_join(TokenAt(parser, parsed.from + 1).span,
                    TokenAt(parser, parser.pos).span)

\* The identifier tokens among the first n tokens of the source.
IdentsUpTo(n) == {i \in 1..n : parser.tokens[i] = KIdent}

\* What the body parser of the frame returns on the whole source.
LoopResult ==
    IF loop.op = "TupleBody"
    THEN parse_tuple_body([tokens |-> parser.tokens, pos |-> 0])
    ELSE parse_struct_body([tokens |-> parser.tokens, pos |-> 0])

\* In every state of a body parser the fields read do not outnumber the
\* identifier tokens consumed, and a parser that has returned has returned
\* the body or the failure that the parse function returns on the source.
LoopSafe ==
    /\ Len(loop.fields) <= Cardinality(IdentsUpTo(parser.pos))
    /\ IdentsUpTo(parser.pos) \subseteq IdentsUpTo(Len(parser.tokens))
    /\ loop.pc = "done" =>
          /\ loop.val.tag \in {"Ok", "Err"}
          /\ LoopResult = [p |-> parser, val |-> loop.val]

\* C20: on every source the body parsers terminate, with the body or the
\* failure that the parser returns; every iteration of the field loop that
\* does not fail consumes at least one token and reads one field; the
\* fields read never outnumber the identifier tokens consumed, so never
\* those of the source.
C20_FieldLoopTerminates ==
    /\ []LoopSafe
    /\ [][/\ parser'.tokens = parser.tokens
          /\ parser'.pos >= parser.pos
          /\ (loop.pc = "while" /\ loop'.pc # "done"
                /\ ~peek(parser, LoopCloseKind)) =>
                /\ parser'.pos > parser.pos
                /\ Len(loop'.fields) = Len(loop.fields) + 1]_vars
    /\ <>(loop.pc = "done")

\* C20 witness: a body of two fields has been parsed in two iterations of
\* the loop and returned.
C20_Witness ==
    /\ loop.pc = "done"
    /\ loop.val.tag = "Ok"
    /\ Len(loop.val.node.fields) = 2
    /\ loop.val.node.fields[1][2] # None
    /\ parser.pos = Len(parser.tokens)

=============================================================================
